---- MODULE Spec2Model ----
(***************************************************************************)
(* Pokedexdle: the guess/game state machine.                               *)
(*                                                                         *)
(* The model covers the database-backed server actions of                  *)
(* src/lib/actions/guess.ts (games and guesses tables), the client state   *)
(* of src/app/components/GameClient.tsx, the two earlier GameClient        *)
(* components (src/unnamed/part_016, src/unnamed/part_017), the            *)
(* local-storage fallback of src/lib/gameSubmission.ts, the hint policy   *)
(* of src/app/components/Hints.tsx, the statistics of                      *)
(* src/lib/actions/stats.ts and gameSubmission.ts, and the three           *)
(* evolution-stage resolvers.                                              *)
(*                                                                         *)
(* A handler is one action: every server call it awaits is part of it.     *)
(* A database write that fails is swallowed by the code (the result of the *)
(* awaited call is never inspected), so each write takes a flag that says  *)
(* whether it reached the table.                                           *)
(***************************************************************************)
EXTENDS Integers, Sequences, FiniteSets, TLC

VARIABLES
    driver,           \* which module drives the game in this run
    user,             \* supabase.auth.getUser() returns a user
    isUnlimited,      \* GameClient prop isUnlimited
    isAdmin,          \* GameClient prop isAdmin
    games,            \* rows of table games (today's puzzle, this user)
    guesses,          \* rows of table guesses
    attemptsUsed,     \* client state attemptsUsed
    won,              \* client state won
    previousGuesses,  \* client state previousGuesses
    revealedHints,    \* client state revealedHints (part_016, part_017)
    gameOverState,    \* client state gameOver (part_016, part_017)
    stored,           \* localStorage["pokedexdle_unsigned_stats"]
    sess,             \* in-flight createGuess calls (interleaved runs only)
    writeLost,        \* some database write of this run failed silently
    last,             \* the handler that ran last, its arguments and result
    input,            \* argument of the function under evaluation
    output,           \* the function evaluated and the value it returned
    cachedPokemonList, \* module variable cachedPokemonList of lib/actions
    fetches,          \* species-list fetches issued so far, per module
    search            \* searchPokemon calls: position, query and result

vars == <<driver, user, isUnlimited, isAdmin, games, guesses, attemptsUsed,
          won, previousGuesses, revealedHints, gameOverState, stored, sess,
          writeLost, last, input, output, cachedPokemonList, fetches,
          search>>

(***************************************************************************)
(* Bounds and program constants                                            *)
(***************************************************************************)
MAX_ATTEMPTS == 6

MaxRows == 7

MaxGames == 3

MaxLocalGuesses == 7

MaxRaceRows == 4

\* Names are sequences of characters, so that toLowerCase acts on them.
CorrectPokemon == <<"p", "i">>

GuessNames == { <<"P", "i">>, <<"e", "v">> }

AnswerArgs == { <<"p", "i">>, <<"E", "v">> }

TodayIso == <<2024, 1, 2>>

\* Each run is driven by one module: a GameClient component (the current one
\* or one of its two predecessors), the exported server actions of guess.ts
\* called on their own, or the functions of gameSubmission.ts.
Drivers == {"GameClient", "part_016", "part_017", "actions", "gameSubmission"}

Sessions == {1, 2}

(***************************************************************************)
(* String helpers                                                          *)
(***************************************************************************)
LowerChar(c) ==
    CASE c = "P" -> "p"
      [] c = "I" -> "i"
      [] c = "E" -> "e"
      [] c = "V" -> "v"
      [] OTHER -> c

toLowerCase(s) == [i \in 1..Len(s) |-> LowerChar(s[i])]

IsCorrectExact(guessName, correctName) == guessName = correctName

\* guessName.toLowerCase() === correctPokemonName.toLowerCase()
IsCorrect(guessName, correctName) ==
    toLowerCase(guessName) = toLowerCase(correctName)

(***************************************************************************)
(* The database: games and guesses                                         *)
(***************************************************************************)
NoGame == 0

WriteFlags == [create : BOOLEAN, write : BOOLEAN]

AllOk == [create |-> TRUE, write |-> TRUE]

\* The flags that can change what a server call made on db does: none when
\* the call is not made or no user is signed in, and the create flag only
\* when getUserGame finds no row.
FlagsFor(db, called) ==
    IF ~called \/ ~user THEN {AllOk}
    ELSE IF Len(db.games) = 1 THEN {f \in WriteFlags : f.create}
    ELSE WriteFlags

Failed(f) == ~(f.create /\ f.write)

NewGameRow == [won |-> "null", is_finished |-> FALSE]

GuessesOf(db, id) == SelectSeq(db.guesses, LAMBDA r : r.game_id = id)

\* .single() yields a row only when exactly one row matches.
getUserGame(db) ==
    IF user /\ Len(db.games) = 1 THEN 1 ELSE NoGame

createGame(db, ok) ==
    IF user /\ ok
    THEN [db   |-> [db EXCEPT !.games = Append(db.games, NewGameRow)],
          game |-> Len(db.games) + 1]
    ELSE [db |-> db, game |-> NoGame]

getOrCreateGame(db, ok) ==
    LET g == getUserGame(db) IN
    IF g # NoGame THEN [db |-> db, game |-> g] ELSE createGame(db, ok)

insertGuess(db, id, guessName, n, ok) ==
    IF ok
    THEN [db EXCEPT !.guesses =
            Append(db.guesses, [game_id        |-> id,
                                guess_name     |-> guessName,
                                attempt_number |-> n])]
    ELSE db

\* exported createGuess(guessName)
createGuess(db, guessName, f) ==
    LET r == getOrCreateGame(db, f.create) IN
    IF r.game = NoGame
    THEN r.db
    ELSE insertGuess(r.db, r.game, guessName,
                     Len(GuessesOf(r.db, r.game)) + 1, f.write)

endGame(db, w, f) ==
    LET r == getOrCreateGame(db, f.create) IN
    IF r.game = NoGame \/ ~f.write
    THEN r.db
    ELSE [r.db EXCEPT !.games[r.game] =
            [won |-> IF w THEN "true" ELSE "false", is_finished |-> TRUE]]

NoResult == [isCorrect |-> FALSE, gameOver |-> FALSE, attemptsUsed |-> -2,
             won |-> FALSE]

\* a rule that ends the game on the sixth attempt whatever the guess was
GameOverRuleAttemptsOnly(n, correct) == n >= MAX_ATTEMPTS

\* gameOver = attemptsUsed >= maxAttempts && !isCorrect
GameOverRule(n, correct) == n >= MAX_ATTEMPTS /\ ~correct

\* exported submitGuess(guessName, correctPokemonName, isUnlimited)
submitGuess(db, guessName, correctName, unlimited, f, fEnd) ==
    LET isCorrect == IsCorrect(guessName, correctName) IN
    IF unlimited
    THEN [db  |-> db, endCalled |-> FALSE,
          res |-> [isCorrect |-> isCorrect, gameOver |-> FALSE,
                   attemptsUsed |-> 0, won |-> isCorrect]]
    ELSE
      LET r == getOrCreateGame(db, f.create) IN
      IF r.game = NoGame
      THEN [db  |-> r.db, endCalled |-> FALSE,
            res |-> [isCorrect |-> isCorrect, gameOver |-> FALSE,
                     attemptsUsed |-> -1, won |-> isCorrect]]
      ELSE
        LET n    == Len(GuessesOf(r.db, r.game)) + 1
            db1  == insertGuess(r.db, r.game, guessName, n, f.write)
            over == GameOverRule(n, isCorrect)
            db2  == IF isCorrect \/ over
                    THEN endGame(db1, isCorrect, fEnd) ELSE db1
        IN [db  |-> db2, endCalled |-> isCorrect \/ over,
            res |-> [isCorrect |-> isCorrect, gameOver |-> over,
                     attemptsUsed |-> n, won |-> isCorrect]]

DB == [games |-> games, guesses |-> guesses]

(***************************************************************************)
(* Client state of GameClient and the values it derives                    *)
(***************************************************************************)
\* a client that stops at the first write that did not reach the table
GameOverOnLostWrite == (attemptsUsed >= MAX_ATTEMPTS /\ ~won) \/ writeLost

GameOverNoWinCheck == attemptsUsed >= MAX_ATTEMPTS

\* gameOver = attemptsUsed >= maxAttempts && !won   (part_016/017: state)
gameOver ==
    IF driver \notin {"part_016", "part_017"}
    THEN attemptsUsed >= MAX_ATTEMPTS /\ ~won
    ELSE gameOverState

ShowImageLate ==
    IF driver \notin {"part_016", "part_017"}
    THEN attemptsUsed >= MAX_ATTEMPTS \/ won
    ELSE revealedHints >= MAX_ATTEMPTS \/ won

\* showImage = attemptsUsed >= maxAttempts - 1 || won
\* (part_016/017: revealedHints >= maxAttempts - 1 || won)
showImage ==
    IF driver \notin {"part_016", "part_017"}
    THEN attemptsUsed >= MAX_ATTEMPTS - 1 \/ won
    ELSE revealedHints >= MAX_ATTEMPTS - 1 \/ won

\* the revealedHints prop handed to <Hints>
hintLevel ==
    IF driver \notin {"part_016", "part_017"}
    THEN (IF won THEN MAX_ATTEMPTS ELSE attemptsUsed)
    ELSE revealedHints

(***************************************************************************)
(* Hint policy (Hints.tsx)                                                 *)
(***************************************************************************)
UpperChar(c) ==
    CASE c = "i" -> "I"
      [] c = "v" -> "V"
      [] c = "x" -> "X"
      [] c = "e" -> "E"
      [] c = "f" -> "F"
      [] c = "l" -> "L"
      [] c = "c" -> "C"
      [] OTHER -> c

\* the string left in the case it came in
KeepCase(s) == s

toUpperCase(s) == [i \in 1..Len(s) |-> UpperChar(s[i])]

capitalize(value) ==
    IF Len(value) = 0 THEN value
    ELSE <<UpperChar(value[1])>> \o SubSeq(value, 2, Len(value))

romanMap(c) ==
    CASE c = "I" -> 1
      [] c = "V" -> 5
      [] c = "X" -> 10
      [] c = "L" -> 50
      [] c = "C" -> 100
      [] c = "D" -> 500
      [] c = "M" -> 1000
      [] OTHER -> 0

RECURSIVE romanFrom(_, _)
romanFrom(roman, i) ==
    IF i > Len(roman) THEN 0
    ELSE LET current == romanMap(roman[i])
             next    == IF i < Len(roman) THEN romanMap(roman[i + 1]) ELSE 0
         IN (IF current < next THEN 0 - current ELSE current)
            + romanFrom(roman, i + 1)

romanToInt(roman) == romanFrom(roman, 1)

\* The generation identifier "generation-<roman>" is held as its <roman> part.
generationToNumber(generation) == romanToInt(toUpperCase(generation))

Placeholder(label) == [label |-> label, kind |-> "placeholder"]

Shown(label, v) == [label |-> label, kind |-> "value", v |-> v]

\* the earlier component left a locked tier out instead of rendering "???"
HintsOmitLocked(pokemon, generation, level) ==
    (IF level >= 1 /\ Len(pokemon.types) >= 1
     THEN << Shown("Type", <<"text", pokemon.types[1]>>) >> ELSE <<>>)
    \o (IF level >= 2
        THEN << Shown("Secondary Type",
                      IF Len(pokemon.types) >= 2
                      THEN <<"text", pokemon.types[2]>>
                      ELSE <<"text", <<"N", "o", "n", "e">> >>) >>
        ELSE <<>>)
    \o (IF level >= 3
        THEN << Shown("Evolution Stage", <<"num", pokemon.evolutionStage>>) >>
        ELSE <<>>)
    \o (IF level >= 4 /\ generation # <<>>
        THEN << Shown("Generation", <<"text", generation>>) >> ELSE <<>>)

Hints(pokemon, generation, level) ==
    << IF level >= 1 /\ Len(pokemon.types) >= 1
       THEN Shown("Type", <<"text", capitalize(pokemon.types[1])>>)
       ELSE Placeholder("Type"),
       IF level >= 2
       THEN Shown("Secondary Type",
                  IF Len(pokemon.types) >= 2
                  THEN <<"text", capitalize(pokemon.types[2])>>
                  ELSE <<"text", <<"N", "o", "n", "e">> >>)
       ELSE Placeholder("Secondary Type"),
       IF level >= 3
       THEN Shown("Evolution Stage", <<"num", pokemon.evolutionStage>>)
       ELSE Placeholder("Evolution Stage"),
       IF level >= 4 /\ generation # <<>>
       THEN Shown("Generation", <<"num", generationToNumber(generation)>>)
       ELSE Placeholder("Generation") >>

\* The page hands GameClient the Pokemon of the day and its generation.
Pokemon == [name |-> CorrectPokemon, types |-> << <<"e", "l">> >>,
            evolutionStage |-> 2]

Generation == <<"i">>

RenderedHints == Hints(Pokemon, Generation, hintLevel)

AllHintsRevealed == \A k \in 1..4 : RenderedHints[k].kind = "value"

(***************************************************************************)
(* Initial state                                                           *)
(***************************************************************************)
Idle == [pc |-> "idle", game |-> NoGame, n |-> 0, name |-> <<>>]

NoOutput == [fn |-> "none"]

\* let cachedPokemonList = null
NotCached == [loaded |-> FALSE]

NoSearch == [pc |-> "idle", module |-> "none", query |-> <<>>,
             result |-> <<>>, fromCache |-> FALSE]

\* a fresh process: nothing cached, nothing fetched, no call in flight
SearchIdle ==
    /\ cachedPokemonList = NotCached
    /\ fetches = [lib |-> 0, app |-> 0]
    /\ search = [s \in Sessions |-> NoSearch]

Act(op, name, res) ==
    [op |-> op, name |-> name, res |-> res, correctName |-> <<>>]

Init ==
    /\ driver \in Drivers
    /\ user \in BOOLEAN
    /\ isUnlimited \in BOOLEAN
    /\ isAdmin \in BOOLEAN
    /\ driver # "GameClient" => ~isUnlimited /\ ~isAdmin
    /\ driver \in {"part_016", "part_017"} => ~user
    /\ games = <<>>
    /\ guesses = <<>>
    /\ attemptsUsed = 0
    /\ won = FALSE
    /\ previousGuesses = <<>>
    /\ revealedHints = 0
    /\ gameOverState = FALSE
    /\ stored = <<>>
    /\ sess = [s \in Sessions |-> Idle]
    /\ writeLost = FALSE
    /\ last = Act("init", <<>>, NoResult)
    /\ input = <<>>
    /\ output = NoOutput
    /\ SearchIdle

\* the props of the component, and the argument and result of a function
\* evaluated on its own: no handler of the game changes them
config == <<driver, user, isUnlimited, isAdmin, input, output,
           cachedPokemonList, fetches, search>>

dbVars == <<games, guesses>>

clientVars == <<attemptsUsed, won, previousGuesses, revealedHints,
                gameOverState>>

(***************************************************************************)
(* Server actions called on their own (exported "use server" functions)    *)
(***************************************************************************)
SetDB(db) ==
    /\ Len(db.guesses) <= MaxRows
    /\ Len(db.games) <= MaxGames
    /\ games' = db.games
    /\ guesses' = db.guesses

ServerSubmitGuess ==
    /\ driver = "actions"
    /\ \E guessName \in GuessNames, correctName \in AnswerArgs,
          unlimited \in BOOLEAN :
         \E f \in FlagsFor(DB, ~unlimited),
            fEnd \in {g \in WriteFlags : g.create} :
         LET r == submitGuess(DB, guessName, correctName, unlimited, f, fEnd)
         IN /\ r.endCalled \/ fEnd = AllOk
            /\ SetDB(r.db)
            /\ writeLost' = (writeLost \/ Failed(f) \/ Failed(fEnd))
            /\ last' = [op |-> "submitGuess", name |-> guessName,
                        res |-> r.res, correctName |-> correctName]
    /\ UNCHANGED <<config, clientVars, stored, sess>>

ServerCreateGuess ==
    /\ driver = "actions"
    /\ \E guessName \in GuessNames, f \in FlagsFor(DB, TRUE) :
         /\ SetDB(createGuess(DB, guessName, f))
         /\ writeLost' = (writeLost \/ Failed(f))
         /\ last' = Act("createGuess", guessName, NoResult)
    /\ UNCHANGED <<config, clientVars, stored, sess>>

ServerEndGame ==
    /\ driver = "actions"
    /\ \E w \in BOOLEAN, f \in FlagsFor(DB, TRUE) :
         /\ SetDB(endGame(DB, w, f))
         /\ writeLost' = (writeLost \/ Failed(f))
         /\ last' = Act("endGame", <<>>, NoResult)
    /\ UNCHANGED <<config, clientVars, stored, sess>>

(***************************************************************************)
(* GameClient.tsx: handleGuess, the admin buttons, and a page load         *)
(***************************************************************************)
\* handleGuess(guessName), with every server action it awaits.
HandleGuess ==
    /\ driver = "GameClient"
    /\ \E guessName \in GuessNames :
         /\ last' = Act("handleGuess", guessName, NoResult)
         /\ IF gameOver \/ won
            THEN UNCHANGED <<dbVars, clientVars, writeLost>>
            ELSE
              LET nextAttempts == attemptsUsed + 1
                  correct == IsCorrect(guessName, Pokemon.name)
                  finish == correct \/ nextAttempts >= MAX_ATTEMPTS
              IN /\ previousGuesses' = Append(previousGuesses, guessName)
                 /\ attemptsUsed' = nextAttempts
                 /\ won' = (IF correct THEN TRUE ELSE won)
                 /\ UNCHANGED <<revealedHints, gameOverState>>
                 /\ \E f1 \in FlagsFor(DB, ~isUnlimited) :
                      LET db1 == IF ~isUnlimited
                                 THEN createGuess(DB, guessName, f1) ELSE DB
                      IN \E f2 \in FlagsFor(db1, TRUE) :
                           LET db2 == createGuess(db1, guessName, f2)
                           IN \E f3 \in FlagsFor(db2, finish /\ ~isUnlimited) :
                                LET db3 == IF finish /\ ~isUnlimited
                                           THEN endGame(db2, correct, f3)
                                           ELSE db2
                                IN \E f4 \in FlagsFor(db3, finish) :
                                     /\ SetDB(IF finish
                                              THEN endGame(db3, correct, f4)
                                              ELSE db3)
                                     /\ writeLost' =
                                          (\/ writeLost
                                           \/ Failed(f1) \/ Failed(f2)
                                           \/ Failed(f3) \/ Failed(f4))
    /\ UNCHANGED <<config, stored, sess>>

HandleAutoWin ==
    /\ driver = "GameClient"
    /\ isAdmin
    /\ last' = Act("handleAutoWin", <<>>, NoResult)
    /\ won' = (IF gameOver \/ won THEN won ELSE TRUE)
    /\ UNCHANGED <<config, dbVars, attemptsUsed, previousGuesses,
                   revealedHints, gameOverState, stored, sess, writeLost>>

HandleAutoLose ==
    /\ driver = "GameClient"
    /\ isAdmin
    /\ last' = Act("handleAutoLose", <<>>, NoResult)
    /\ attemptsUsed' = (IF gameOver \/ won THEN attemptsUsed
                        ELSE MAX_ATTEMPTS)
    /\ UNCHANGED <<config, dbVars, won, previousGuesses, revealedHints,
                   gameOverState, stored, sess, writeLost>>

\* stable insertion sort by attempt_number, as Array.prototype.sort does
RECURSIVE InsertByAttempt(_, _)
InsertByAttempt(sorted, r) ==
    IF sorted = <<>> THEN <<r>>
    ELSE IF sorted[Len(sorted)].attempt_number <= r.attempt_number
         THEN Append(sorted, r)
         ELSE Append(InsertByAttempt(SubSeq(sorted, 1, Len(sorted) - 1), r),
                     sorted[Len(sorted)])

RECURSIVE SortByAttempt(_)
SortByAttempt(rows) ==
    IF rows = <<>> THEN <<>>
    ELSE InsertByAttempt(SortByAttempt(SubSeq(rows, 1, Len(rows) - 1)),
                         rows[Len(rows)])

\* The page passes game = user ? getUserGame() : null (null when unlimited);
\* the component initialises its state from it.
Reload ==
    /\ driver = "GameClient"
    /\ LET game == IF isUnlimited THEN NoGame ELSE getUserGame(DB)
           rows == IF game = NoGame THEN <<>> ELSE GuessesOf(DB, game)
           sorted == SortByAttempt(rows)
       IN /\ attemptsUsed' = Len(rows)
          /\ won' = (game # NoGame /\ games[game].won = "true")
          /\ previousGuesses' = [i \in 1..Len(sorted) |-> sorted[i].guess_name]
    /\ last' = Act("reload", <<>>, NoResult)
    /\ UNCHANGED <<config, dbVars, revealedHints, gameOverState, stored, sess,
                   writeLost>>

(***************************************************************************)
(* Earlier GameClient components (part_016, part_017)                      *)
(***************************************************************************)
\* handleGuess(isCorrect, guessName); isCorrect is computed by SearchPokemon
LegacyHandleGuess ==
    /\ driver \in {"part_016", "part_017"}
    /\ \E guessName \in GuessNames :
         /\ last' = Act("handleGuess", guessName, NoResult)
         /\ IF gameOverState \/ won
            THEN UNCHANGED clientVars
            ELSE
              LET isCorrect == IsCorrect(guessName, CorrectPokemon)
                  nextAttempts == attemptsUsed + 1
                  nextHints ==
                      IF revealedHints + 1 < MAX_ATTEMPTS - 1
                      THEN revealedHints + 1 ELSE MAX_ATTEMPTS - 1
              IN /\ previousGuesses' =
                       (IF driver = "part_017"
                        THEN Append(previousGuesses, guessName)
                        ELSE previousGuesses)
                 /\ attemptsUsed' = nextAttempts
                 /\ won' = (IF isCorrect THEN TRUE ELSE won)
                 /\ revealedHints' =
                       (IF isCorrect THEN revealedHints ELSE nextHints)
                 /\ gameOverState' =
                       (IF ~isCorrect /\ nextAttempts >= MAX_ATTEMPTS
                        THEN TRUE ELSE gameOverState)
    /\ UNCHANGED <<config, dbVars, stored, sess, writeLost>>

\* part_016: window.location.reload() one second after the game ends
LegacyReload ==
    /\ driver = "part_016"
    /\ won \/ gameOverState
    /\ attemptsUsed' = 0
    /\ revealedHints' = 0
    /\ gameOverState' = FALSE
    /\ won' = FALSE
    /\ last' = Act("reload", <<>>, NoResult)
    /\ UNCHANGED <<config, dbVars, previousGuesses, stored, sess, writeLost>>

(***************************************************************************)
(* Local-storage fallback (gameSubmission.ts)                              *)
(***************************************************************************)
IndexOfDate(list, date) ==
    IF \E i \in 1..Len(list) : list[i].date = date
    THEN CHOOSE i \in 1..Len(list) :
            /\ list[i].date = date
            /\ \A j \in 1..(i - 1) : list[j].date # date
    ELSE 0

\* a store that pushes every record it is given
saveGameRecordPush(list, record) == Append(list, record)

\* saveGameRecord(record): replace the entry of that date, else push
saveGameRecord(list, record) ==
    LET existingIndex == IndexOfDate(list, record.date) IN
    IF existingIndex > 0
    THEN [list EXCEPT ![existingIndex] = record]
    ELSE Append(list, record)

\* initializeGame(isSignedIn, pokemonName)
InitializeGame ==
    /\ driver = "gameSubmission"
    /\ stored' =
         (IF ~user /\ IndexOfDate(stored, TodayIso) = 0
          THEN saveGameRecord(stored, [date |-> TodayIso, won |-> FALSE,
                                       guesses |-> 0,
                                       pokemonName |-> CorrectPokemon,
                                       isFinished |-> FALSE])
          ELSE stored)
    /\ last' = Act("initializeGame", <<>>, NoResult)
    /\ UNCHANGED <<config, dbVars, clientVars, sess, writeLost>>

\* submitGuess(guessName, isSignedIn) of gameSubmission.ts
LocalSubmitGuess ==
    /\ driver = "gameSubmission"
    /\ \E guessName \in GuessNames, f \in FlagsFor(DB, TRUE) :
         /\ last' = Act("localSubmitGuess", guessName, NoResult)
         /\ IF user
            THEN /\ SetDB(createGuess(DB, guessName, f))
                 /\ writeLost' = (writeLost \/ Failed(f))
                 /\ UNCHANGED stored
            ELSE LET i == IndexOfDate(stored, TodayIso) IN
                 /\ i > 0 => stored[i].guesses < MaxLocalGuesses
                 /\ stored' =
                      (IF i > 0
                       THEN saveGameRecord(stored,
                              [stored[i] EXCEPT !.guesses = @ + 1])
                       ELSE stored)
                 /\ UNCHANGED <<dbVars, writeLost>>
    /\ UNCHANGED <<config, clientVars, sess>>

\* submitEndGame(won, isSignedIn, pokemonName)
LocalSubmitEndGame ==
    /\ driver = "gameSubmission"
    /\ \E w \in BOOLEAN, f \in FlagsFor(DB, TRUE) :
         /\ last' = Act("localSubmitEndGame", <<>>, NoResult)
         /\ IF user
            THEN /\ SetDB(endGame(DB, w, f))
                 /\ writeLost' = (writeLost \/ Failed(f))
                 /\ UNCHANGED stored
            ELSE LET i == IndexOfDate(stored, TodayIso) IN
                 /\ stored' =
                      (IF i > 0
                       THEN [stored EXCEPT ![i] =
                               [@ EXCEPT !.won = w, !.isFinished = TRUE]]
                       ELSE stored)
                 /\ UNCHANGED <<dbVars, writeLost>>
    /\ UNCHANGED <<config, clientVars, sess>>

Next ==
    \/ ServerSubmitGuess
    \/ ServerCreateGuess
    \/ ServerEndGame
    \/ HandleGuess
    \/ HandleAutoWin
    \/ HandleAutoLose
    \/ Reload
    \/ LegacyHandleGuess
    \/ LegacyReload
    \/ InitializeGame
    \/ LocalSubmitGuess
    \/ LocalSubmitEndGame

Spec == Init /\ [][Next]_vars

(***************************************************************************)
(* Interleaved runs: two sessions of the same user (two tabs) each call    *)
(* the exported createGuess; its awaits are the points where the other     *)
(* session can run.                                                        *)
(***************************************************************************)
InitRace ==
    /\ Init
    /\ driver = "actions"
    /\ user

RaceStart(s) ==
    /\ sess[s].pc = "idle"
    /\ Len(guesses) < MaxRaceRows
    /\ Len(games) < MaxGames
    /\ \E guessName \in GuessNames :
         sess' = [sess EXCEPT ![s] = [pc |-> "getUserGame", game |-> NoGame,
                                      n |-> 0, name |-> guessName]]
    /\ last' = Act("createGuess", sess'[s].name, NoResult)
    /\ UNCHANGED <<config, dbVars, clientVars, stored, writeLost>>

\* getOrCreateGame: await getUserGame()
RaceGetUserGame(s) ==
    /\ sess[s].pc = "getUserGame"
    /\ LET g == getUserGame(DB) IN
       sess' = [sess EXCEPT ![s] =
                  IF g # NoGame
                  THEN [@ EXCEPT !.pc = "insert", !.game = g,
                                 !.n = Len(GuessesOf(DB, g))]
                  ELSE [@ EXCEPT !.pc = "createGame"]]
    /\ UNCHANGED <<config, dbVars, clientVars, stored, writeLost, last>>

\* getOrCreateGame: await createGame()
RaceCreateGame(s) ==
    /\ sess[s].pc = "createGame"
    /\ \E ok \in BOOLEAN :
         LET r == createGame(DB, ok) IN
         /\ SetDB(r.db)
         /\ writeLost' = (writeLost \/ ~ok)
         /\ sess' = [sess EXCEPT ![s] =
                       IF r.game = NoGame THEN Idle
                       ELSE [@ EXCEPT !.pc = "insert", !.game = r.game,
                                      !.n = 0]]
    /\ UNCHANGED <<config, clientVars, stored, last>>

\* createGuess: await insert, attempt_number = game.guesses.length + 1
RaceInsert(s) ==
    /\ sess[s].pc = "insert"
    /\ \E ok \in BOOLEAN :
         /\ SetDB(insertGuess(DB, sess[s].game, sess[s].name,
                              sess[s].n + 1, ok))
         /\ writeLost' = (writeLost \/ ~ok)
    /\ sess' = [sess EXCEPT ![s] = Idle]
    /\ UNCHANGED <<config, clientVars, stored, last>>

NextRace ==
    \/ \E s \in Sessions : RaceStart(s)
    \/ \E s \in Sessions : RaceGetUserGame(s)
    \/ \E s \in Sessions : RaceCreateGame(s)
    \/ \E s \in Sessions : RaceInsert(s)

SpecRace == InitRace /\ [][NextRace]_vars

(***************************************************************************)
(* The local store on its own: an anonymous browser calling the functions  *)
(* of gameSubmission.ts, saveGameRecord included (it is exported and takes *)
(* the record, date and all, from its caller).                             *)
(***************************************************************************)
MaxSavedGuesses == 1

LocalDates == { <<2024, 1, 1>>, TodayIso, <<2024, 1, 3>> }

GameRecords ==
    [date : LocalDates, won : BOOLEAN, guesses : 0..MaxSavedGuesses,
     pokemonName : {CorrectPokemon}, isFinished : BOOLEAN]

InitLocal ==
    /\ Init
    /\ driver = "gameSubmission"
    /\ ~user

SaveGameRecord ==
    /\ driver = "gameSubmission"
    /\ \E record \in GameRecords :
         /\ stored' = saveGameRecord(stored, record)
         /\ last' = Act("saveGameRecord", record, NoResult)
    /\ UNCHANGED <<config, dbVars, clientVars, sess, writeLost>>

NextLocal ==
    \/ InitializeGame
    \/ LocalSubmitGuess
    \/ LocalSubmitEndGame
    \/ SaveGameRecord

SpecLocal == InitLocal /\ [][NextLocal]_vars

(***************************************************************************)
(* Functions evaluated on their own.  The game is idle; the argument is    *)
(* drawn in the initial state and the action applies the function to it.   *)
(***************************************************************************)
GameIdle ==
    /\ driver = "GameClient"
    /\ user = FALSE
    /\ isUnlimited = FALSE
    /\ isAdmin = FALSE
    /\ games = <<>>
    /\ guesses = <<>>
    /\ attemptsUsed = 0
    /\ won = FALSE
    /\ previousGuesses = <<>>
    /\ revealedHints = 0
    /\ gameOverState = FALSE
    /\ stored = <<>>
    /\ sess = [s \in Sessions |-> Idle]
    /\ writeLost = FALSE
    /\ last = Act("init", <<>>, NoResult)
    /\ SearchIdle

gameVars == <<driver, user, isUnlimited, isAdmin, games, guesses,
              attemptsUsed, won, previousGuesses, revealedHints,
              gameOverState, stored, sess, writeLost, last,
              cachedPokemonList, fetches, search>>

(***************************************************************************)
(* <Hints pokemon generation revealedHints /> for the species the pages    *)
(* hand over: both pages return an error view before rendering GameClient  *)
(* when the species, its generation or its evolution stage is missing.     *)
(***************************************************************************)
TypeNames == { <<"f", "i">>, <<"e", "l">> }

TypeLists ==
    { <<t>> : t \in TypeNames }
      \cup { p \in TypeNames \X TypeNames : p[1] # p[2] }

GenerationNames == { <<"i">>, <<"i", "v">>, <<"v", "i">>, <<"i", "x">> }

MaxStage == 3

HintsProps ==
    [pokemon : [name : {CorrectPokemon}, types : TypeLists,
                evolutionStage : 1..MaxStage],
     generation : GenerationNames,
     revealedHints : 0..MAX_ATTEMPTS]

InitHints ==
    /\ GameIdle
    /\ input \in HintsProps
    /\ output = NoOutput

RenderHints ==
    /\ output = NoOutput
    /\ output' = [fn |-> "Hints",
                  hints |-> Hints(input.pokemon, input.generation,
                                  input.revealedHints)]
    /\ UNCHANGED <<gameVars, input>>

NextHints == RenderHints

SpecHints == InitHints /\ [][NextHints]_vars

(***************************************************************************)
(* Statistics (stats.ts getUserStats, gameSubmission.ts                    *)
(* calculateUnsignedStats).  A date string "YYYY-MM-DD" is held as its     *)
(* three fields <<YYYY, MM, DD>>; on such fixed-width strings              *)
(* localeCompare is the lexicographic order of the fields.  A row is       *)
(* [date, won, isFinished]; won is TRUE exactly for the value true (the    *)
(* code tests row.won === true, so null reads as false).                   *)
(***************************************************************************)
IsLeapYear(y) == (y % 4 = 0 /\ y % 100 # 0) \/ y % 400 = 0

LeapDaysBefore(y) == ((y - 1) \div 4) - ((y - 1) \div 100) + ((y - 1) \div 400)

DaysBeforeYear(y) == 365 * (y - 1970) + LeapDaysBefore(y) - LeapDaysBefore(1970)

DaysBeforeMonth(y, monthIndex) ==
    <<0, 31, 59, 90, 120, 151, 181, 212, 243, 273, 304, 334>>[monthIndex + 1]
      + (IF monthIndex >= 2 /\ IsLeapYear(y) THEN 1 ELSE 0)

\* Date.UTC(year, monthIndex, day) / 86400000: years 0..99 mean 1900..1999,
\* a month index past 11 and a day past the end of the month carry over.
DateUTCDays(year, monthIndex, day) ==
    LET full == IF year \in 0..99 THEN 1900 + year ELSE year
        y    == full + (monthIndex \div 12)
    IN DaysBeforeYear(y) + DaysBeforeMonth(y, monthIndex % 12) + (day - 1)

\* Number(segment) of a missing or non-numeric segment; a segment never
\* parses to a negative number, "-" being the separator
NaN == -1

\* !x for a number
Falsy(x) == x = 0 \/ x = NaN

\* the day number ignoring the month: what adjacency would be on DD alone
toUtcDayNumberDayOnly(dateString) ==
    IF Falsy(dateString[1]) \/ Falsy(dateString[2]) \/ Falsy(dateString[3])
    THEN <<>>
    ELSE << dateString[3] >>

\* null is <<>>, a number n is <<n>>
toUtcDayNumber(dateString) ==
    IF Falsy(dateString[1]) \/ Falsy(dateString[2]) \/ Falsy(dateString[3])
    THEN <<>>
    ELSE << DateUTCDays(dateString[1], dateString[2] - 1, dateString[3]) >>

\* a.localeCompare(b) < 0
DateBefore(a, b) ==
    \/ a[1] < b[1]
    \/ a[1] = b[1] /\ a[2] < b[2]
    \/ a[1] = b[1] /\ a[2] = b[2] /\ a[3] < b[3]

RECURSIVE InsertByDate(_, _)
InsertByDate(sorted, r) ==
    IF sorted = <<>> THEN <<r>>
    ELSE IF ~DateBefore(r.date, sorted[Len(sorted)].date)
         THEN Append(sorted, r)
         ELSE Append(InsertByDate(SubSeq(sorted, 1, Len(sorted) - 1), r),
                     sorted[Len(sorted)])

\* the array left as it came
KeepOrder(rows) == rows

\* Array.prototype.sort with the date comparator (stable)
RECURSIVE SortByDate(_)
SortByDate(rows) ==
    IF rows = <<>> THEN <<>>
    ELSE InsertByDate(SortByDate(SubSeq(rows, 1, Len(rows) - 1)),
                      rows[Len(rows)])

\* the Map byDate after data.forEach, in insertion order
RECURSIVE ByDate(_)
ByDate(data) ==
    IF data = <<>> THEN <<>>
    ELSE LET before == ByDate(SubSeq(data, 1, Len(data) - 1))
             row    == data[Len(data)]
             i      == IndexOfDate(before, row.date)
         IN IF row.date = <<>> THEN before
            ELSE IF i = 0
                 THEN Append(before, [date |-> row.date, won |-> row.won])
                 ELSE IF row.won
                      THEN [before EXCEPT ![i].won = TRUE]
                      ELSE before

StreakStart ==
    [bestStreak |-> 0, currentStreak |-> 0, streak |-> 0,
     prevDayNumber |-> <<>>]

\* the forEach over the sorted entries
RECURSIVE StreakWalk(_, _, _)
StreakWalk(dates, index, st) ==
    IF index > Len(dates) THEN st
    ELSE LET didWin    == dates[index].won
             dayNumber == toUtcDayNumber(dates[index].date)
         IN IF dayNumber = <<>> THEN StreakWalk(dates, index + 1, st)
            ELSE LET streak ==
                       IF didWin
                       THEN (IF st.prevDayNumber # <<>>
                                /\ dayNumber[1] = st.prevDayNumber[1] + 1
                             THEN st.streak + 1 ELSE 1)
                       ELSE 0
                     best ==
                       IF didWin /\ streak > st.bestStreak
                       THEN streak ELSE st.bestStreak
                     cur ==
                       IF index = Len(dates)
                       THEN (IF didWin THEN streak ELSE 0)
                       ELSE st.currentStreak
                 IN StreakWalk(dates, index + 1,
                               [bestStreak |-> best, currentStreak |-> cur,
                                streak |-> streak,
                                prevDayNumber |-> dayNumber])

\* totals counted over the dates of byDate instead of over the rows
getUserStatsTotalsByDate(data) ==
    LET dates == SortByDate(ByDate(data))
        w     == StreakWalk(dates, 1, StreakStart)
    IN [totalGames    |-> Len(dates),
        totalWins     |-> Len(SelectSeq(data, LAMBDA row : row.won)),
        currentStreak |-> w.currentStreak,
        bestStreak    |-> w.bestStreak]

getUserStats(data) ==
    LET dates == SortByDate(ByDate(data))
        w     == StreakWalk(dates, 1, StreakStart)
    IN [totalGames    |-> Len(data),
        totalWins     |-> Len(SelectSeq(data, LAMBDA row : row.won)),
        currentStreak |-> w.currentStreak,
        bestStreak    |-> w.bestStreak]

\* the walk over the games in stored order, without the sort
calculateUnsignedStatsUnsorted(list) ==
    LET w == StreakWalk(list, 1, StreakStart)
    IN [totalGames    |-> Len(list),
        totalWins     |-> Len(SelectSeq(list, LAMBDA g : g.won)),
        currentStreak |-> w.currentStreak,
        bestStreak    |-> w.bestStreak]

calculateUnsignedStats(list) ==
    IF Len(list) = 0
    THEN [totalGames |-> 0, totalWins |-> 0, currentStreak |-> 0,
          bestStreak |-> 0]
    ELSE LET sortedGames == SortByDate(list)
             w           == StreakWalk(sortedGames, 1, StreakStart)
         IN [totalGames    |-> Len(list),
             totalWins     |-> Len(SelectSeq(list, LAMBDA g : g.won)),
             currentStreak |-> w.currentStreak,
             bestStreak    |-> w.bestStreak]

MaxStatRows == 3

\* available_on / date values: four calendar days around a month end, and two
\* strings whose day field is 00 (one sorts in the middle, one sorts last)
StatDates ==
    { <<2024, 1, 30>>, <<2024, 1, 31>>, <<2024, 2, 1>>, <<2024, 2, 3>>,
      <<2024, 2, 0>>, <<2024, 3, 0>> }

\* a game is created with is_finished false and won null / false; endGame
\* writes won together with is_finished = true
StatRows ==
    { r \in [date : StatDates, won : BOOLEAN, isFinished : BOOLEAN] :
        r.won => r.isFinished }

StatInputs == UNION { [1..n -> StatRows] : n \in 0..MaxStatRows }

\* what saveGameRecord leaves in localStorage: one record per date, each date
\* the toISOString day of the write
LocalStoreShape(list) ==
    /\ \A i, j \in 1..Len(list) : list[i].date = list[j].date => i = j
    /\ \A i \in 1..Len(list) : list[i].date[3] # 0

InitStats ==
    /\ GameIdle
    /\ input \in StatInputs
    /\ output = NoOutput

GetUserStats ==
    /\ output = NoOutput
    /\ output' = [fn |-> "getUserStats", stats |-> getUserStats(input)]
    /\ UNCHANGED <<gameVars, input>>

CalculateUnsignedStats ==
    /\ output = NoOutput
    /\ LocalStoreShape(input)
    /\ output' = [fn |-> "calculateUnsignedStats",
                  stats |-> calculateUnsignedStats(input)]
    /\ UNCHANGED <<gameVars, input>>

NextStats ==
    \/ GetUserStats
    \/ CalculateUnsignedStats

SpecStats == InitStats /\ [][NextStats]_vars

(***************************************************************************)
(* Evolution stage.  An evolution chain is a tree of nodes                  *)
(* {species, evolves_to}; it is held as the parent of each node, node 1    *)
(* being evoChain.chain, and evolves_to lists the children in node order.  *)
(* Three functions resolve a stage: getEvolutionStage of lib/actions       *)
(* (queue), getEvolutionStage of app/page.tsx and                           *)
(* getPokemonEvolutionStage of app/actions/pokemon.ts (evolves_to[0]).     *)
(* A returned number n is <<n>>, null is <<>>.                             *)
(***************************************************************************)
MaxChain == 4

SpeciesNames == << <<"a">>, <<"b">>, <<"c">>, <<"d">>, <<"e">>, <<"f">> >>

Chains ==
    UNION { { c \in [1..n -> 0..(n - 1)] :
                /\ c[1] = 0
                /\ \A i \in 2..n : c[i] \in 1..(i - 1) } : n \in 1..MaxChain }

EvolvesTo(chain, node) ==
    SelectSeq([i \in 1..Len(chain) |-> i], LAMBDA i : chain[i] = node)

RECURSIVE QueueStage(_, _, _)
QueueStage(chain, queue, pokemonName) ==
    IF queue = <<>> THEN <<1>>
    ELSE LET current == Head(queue)
             next    == EvolvesTo(chain, current.node)
         IN IF SpeciesNames[current.node] = pokemonName
            THEN <<current.stage>>
            ELSE QueueStage(chain,
                            Tail(queue) \o
                              [k \in 1..Len(next) |->
                                 [node |-> next[k],
                                  stage |-> current.stage + 1]],
                            pokemonName)

\* lib/actions: const queue = [{ node: evoChain.chain, stage: 1 }]
getEvolutionStage(chain, pokemonName) ==
    QueueStage(chain, << [node |-> 1, stage |-> 1] >>, pokemonName)

\* while (current) { ...; current = current.evolves_to?.[0]; stage++ }
RECURSIVE FirstBranchStage(_, _, _, _, _)
FirstBranchStage(chain, current, stage, pokemonName, notFound) ==
    IF current = 0 THEN notFound
    ELSE IF SpeciesNames[current] = pokemonName THEN <<stage>>
         ELSE LET next == EvolvesTo(chain, current)
              IN FirstBranchStage(chain,
                                  IF next = <<>> THEN 0 ELSE next[1],
                                  stage + 1, pokemonName, notFound)

\* app/page.tsx
pageGetEvolutionStage(chain, pokemonName) ==
    FirstBranchStage(chain, 1, 1, pokemonName, <<1>>)

\* app/actions/pokemon.ts
getPokemonEvolutionStage(chain, name) ==
    FirstBranchStage(chain, 1, 1, toLowerCase(name), <<>>)

StageInputs ==
    [chain : Chains,
     pokemonName : { SpeciesNames[i] : i \in 1..(MaxChain + 1) }]

InitStage ==
    /\ GameIdle
    /\ input \in StageInputs
    /\ output = NoOutput

LibGetEvolutionStage ==
    /\ output = NoOutput
    /\ output' = [fn |-> "lib/actions getEvolutionStage",
                  stage |-> getEvolutionStage(input.chain, input.pokemonName)]
    /\ UNCHANGED <<gameVars, input>>

PageGetEvolutionStage ==
    /\ output = NoOutput
    /\ output' = [fn |-> "app/page getEvolutionStage",
                  stage |-> pageGetEvolutionStage(input.chain,
                                                  input.pokemonName)]
    /\ UNCHANGED <<gameVars, input>>

GetPokemonEvolutionStage ==
    /\ output = NoOutput
    /\ output' = [fn |-> "getPokemonEvolutionStage",
                  stage |-> getPokemonEvolutionStage(input.chain,
                                                     input.pokemonName)]
    /\ UNCHANGED <<gameVars, input>>

NextStage ==
    \/ LibGetEvolutionStage
    \/ PageGetEvolutionStage
    \/ GetPokemonEvolutionStage

SpecStage == InitStage /\ [][NextStage]_vars

(***************************************************************************)
(* searchPokemon.  Two modules export it: lib/actions (guard on the        *)
(* trimmed query, module-level cache) and app/actions (fetches on every    *)
(* call).  A call runs up to its await of the species list in one step and *)
(* resumes in another; other calls of the same process run in between.     *)
(***************************************************************************)
MaxFetches == 3

SLICE_END == 10

\* res.results: the names of the species list
SpeciesList == << <<"p", "i">>, <<"e", "v">>, <<"p", "o">> >>

Queries == { <<>>, <<" ">>, <<"P">>, <<"v">>, <<"p", " ">> }

\* String.prototype.trim on blanks
RECURSIVE trim(_)
trim(str) ==
    IF str = <<>> THEN str
    ELSE IF Head(str) = " " THEN trim(Tail(str))
    ELSE IF str[Len(str)] = " " THEN trim(SubSeq(str, 1, Len(str) - 1))
    ELSE str

\* String.prototype.includes
includes(str, part) ==
    \E i \in 0..(Len(str) - Len(part)) :
        SubSeq(str, i + 1, i + Len(part)) = part

slice(list, end) ==
    SubSeq(list, 1, IF Len(list) < end THEN Len(list) ELSE end)

\* lib: cachedPokemonList.filter(p => p.name.includes(lower)).slice(0, 10)
libFilter(list, query) ==
    slice(SelectSeq(list, LAMBDA name : includes(name, toLowerCase(query))),
          SLICE_END)

\* app: results.filter(p => p.name.toLowerCase().includes(query.toLowerCase()))
appFilter(list, query) ==
    SelectSeq(list,
              LAMBDA name : includes(toLowerCase(name), toLowerCase(query)))

\* if (!query.trim()) return []
SearchGuard(query) == trim(query) = <<>>

Done(module, query, result, fromCache) ==
    [pc |-> "done", module |-> module, query |-> query, result |-> result,
     fromCache |-> fromCache]

Awaiting(module, query) ==
    [pc |-> "awaiting", module |-> module, query |-> query, result |-> <<>>,
     fromCache |-> FALSE]

\* lib searchPokemon(query) up to its first await
LibSearchCall(s) ==
    /\ search[s].pc # "awaiting"
    /\ \E query \in Queries :
         IF SearchGuard(query)
         THEN /\ search' = [search EXCEPT ![s] = Done("lib", query, <<>>, FALSE)]
              /\ UNCHANGED <<cachedPokemonList, fetches>>
         ELSE IF ~cachedPokemonList.loaded
         THEN /\ fetches.lib < MaxFetches
              /\ fetches' = [fetches EXCEPT !.lib = @ + 1]
              /\ search' = [search EXCEPT ![s] = Awaiting("lib", query)]
              /\ UNCHANGED cachedPokemonList
         ELSE /\ search' = [search EXCEPT ![s] =
                   Done("lib", query,
                        libFilter(cachedPokemonList.results, query), TRUE)]
              /\ UNCHANGED <<cachedPokemonList, fetches>>
    /\ UNCHANGED <<driver, user, isUnlimited, isAdmin, input, output,
                   dbVars, clientVars, stored, sess, writeLost, last>>

\* lib searchPokemon: P.getPokemonsList has returned
LibSearchResume(s) ==
    /\ search[s].pc = "awaiting"
    /\ search[s].module = "lib"
    /\ cachedPokemonList' = [loaded |-> TRUE, results |-> SpeciesList]
    /\ search' = [search EXCEPT ![s] =
                    Done("lib", search[s].query,
                         libFilter(SpeciesList, search[s].query), FALSE)]
    /\ UNCHANGED <<driver, user, isUnlimited, isAdmin, input, output,
                   dbVars, clientVars, stored, sess, writeLost, last,
                   fetches>>

\* app searchPokemon(query) up to its fetch
AppSearchCall(s) ==
    /\ search[s].pc # "awaiting"
    /\ fetches.app < MaxFetches
    /\ \E query \in Queries :
         search' = [search EXCEPT ![s] = Awaiting("app", query)]
    /\ fetches' = [fetches EXCEPT !.app = @ + 1]
    /\ UNCHANGED <<driver, user, isUnlimited, isAdmin, input, output,
                   dbVars, clientVars, stored, sess, writeLost, last,
                   cachedPokemonList>>

\* app searchPokemon: the fetch and res.json() have returned
AppSearchResume(s) ==
    /\ search[s].pc = "awaiting"
    /\ search[s].module = "app"
    /\ search' = [search EXCEPT ![s] =
                    Done("app", search[s].query,
                         appFilter(SpeciesList, search[s].query), FALSE)]
    /\ UNCHANGED <<driver, user, isUnlimited, isAdmin, input, output,
                   dbVars, clientVars, stored, sess, writeLost, last,
                   cachedPokemonList, fetches>>

InitSearch ==
    /\ GameIdle
    /\ input = <<>>
    /\ output = NoOutput

NextSearch ==
    \/ \E s \in Sessions : LibSearchCall(s)
    \/ \E s \in Sessions : LibSearchResume(s)
    \/ \E s \in Sessions : AppSearchCall(s)
    \/ \E s \in Sessions : AppSearchResume(s)

SpecSearch == InitSearch /\ [][NextSearch]_vars

(***************************************************************************)
(* generationToNumber on its own, for the identifiers "generation-<roman>" *)
(* of the generations 1..MaxOrdinal, in lower case as PokeAPI names them.  *)
(***************************************************************************)
MaxOrdinal == 60

\* the standard numeral of n, in lower case
RomanUnits ==
    << <<"i">>, <<"i", "i">>, <<"i", "i", "i">>, <<"i", "v">>, <<"v">>,
       <<"v", "i">>, <<"v", "i", "i">>, <<"v", "i", "i", "i">>,
       <<"i", "x">> >>

RomanTens ==
    << <<"x">>, <<"x", "x">>, <<"x", "x", "x">>, <<"x", "l">>, <<"l">>,
       <<"l", "x">>, <<"l", "x", "x">>, <<"l", "x", "x", "x">>,
       <<"x", "c">> >>

RomanNumeral(n) ==
    (IF n \div 10 = 0 THEN <<>> ELSE RomanTens[n \div 10])
      \o (IF n % 10 = 0 THEN <<>> ELSE RomanUnits[n % 10])

GenerationIds == { RomanNumeral(n) : n \in 1..MaxOrdinal }

InitRoman ==
    /\ GameIdle
    /\ input \in [generation : GenerationIds]
    /\ output = NoOutput

GenerationToNumber ==
    /\ output = NoOutput
    /\ output' = [fn |-> "generationToNumber",
                  n  |-> generationToNumber(input.generation)]
    /\ UNCHANGED <<gameVars, input>>

NextRoman == GenerationToNumber

SpecRoman == InitRoman /\ [][NextRoman]_vars

(***************************************************************************)
(* toUtcDayNumber on its own, applied to two date strings.                 *)
(***************************************************************************)
DayInputs ==
    { <<2023, 12, 31>>, <<2024, 1, 1>>, <<2024, 1, 31>>, <<2024, 2, 1>>,
      <<2024, 2, 28>>, <<2024, 2, 29>>, <<2024, 3, 1>>, <<1970, 1, 1>>,
      <<1950, 1, 1>>, <<50, 1, 1>>,
      <<2024, 0, 5>>, <<2024, 1, 0>>, <<0, 1, 1>>,
      <<2024, NaN, 1>>, <<2024, 1, NaN>>, <<NaN, 1, 1>> }

InitDay ==
    /\ GameIdle
    /\ input \in [a : DayInputs, b : DayInputs]
    /\ output = NoOutput

ToUtcDayNumber ==
    /\ output = NoOutput
    /\ output' = [fn |-> "toUtcDayNumber",
                  a  |-> toUtcDayNumber(input.a),
                  b  |-> toUtcDayNumber(input.b)]
    /\ UNCHANGED <<gameVars, input>>

NextDay == ToUtcDayNumber

SpecDay == InitDay /\ [][NextDay]_vars

(***************************************************************************)
(* Vocabulary of the properties                                            *)
(***************************************************************************)
\* Case-insensitive equality, stated on the characters.
SameIgnoringCase(a, b) ==
    /\ Len(a) = Len(b)
    /\ \A i \in 1..Len(a) : LowerChar(a[i]) = LowerChar(b[i])

ClientDrivers == {"GameClient", "part_016", "part_017"}

ClientTerminal == won \/ gameOver

GameIds == 1..Len(games)

DbTerminal(g) == games[g].is_finished

TodaysRecords == {i \in 1..Len(stored) : stored[i].date = TodayIso}

\* A signed-in player of the daily puzzle without the admin buttons.
SignedInDaily == driver = "GameClient" /\ user /\ ~isUnlimited /\ ~isAdmin

(***************************************************************************)
(* C1  Terminal idempotence: once a game is Won or Lost, a further guess   *)
(* submission (client handleGuess, server submitGuess/createGuess, the     *)
(* local-storage submitGuess) changes neither the attempt count, nor the   *)
(* guess log, nor the won/finished status.  Stated for runs in which no    *)
(* write is lost.                                                          *)
(***************************************************************************)
C1_TerminalIdempotence ==
    [][ ~writeLost' =>
        /\ (driver \in ClientDrivers /\ ClientTerminal
            /\ last'.op = "handleGuess")
           => UNCHANGED <<attemptsUsed, previousGuesses, won, gameOverState>>
        /\ (\E g \in GameIds : DbTerminal(g))
           /\ last'.op \in {"submitGuess", "createGuess", "localSubmitGuess"}
           => UNCHANGED <<games, guesses>>
        /\ (\E i \in TodaysRecords : stored[i].isFinished)
           /\ last'.op = "localSubmitGuess"
           => UNCHANGED stored ]_vars

(***************************************************************************)
(* C2  Attempt cap: no game (database game or local record) ever holds     *)
(* more than MAX_ATTEMPTS recorded guesses.  Stated for runs in which no   *)
(* write is lost.                                                          *)
(***************************************************************************)
C2_AttemptCap ==
    ~writeLost =>
    /\ \A g \in GameIds : Len(GuessesOf(DB, g)) <= MAX_ATTEMPTS
    /\ \A i \in 1..Len(stored) : stored[i].guesses <= MAX_ATTEMPTS

(***************************************************************************)
(* C3  Transition rule: from a non-terminal game a guess that equals the   *)
(* answer ignoring case gives Won; otherwise the guess numbered            *)
(* MAX_ATTEMPTS gives Lost; otherwise the game stays InProgress.  Stated   *)
(* for the client state after handleGuess and for the result and the game  *)
(* row after the server submitGuess.                                       *)
(***************************************************************************)
C3_ClientRule ==
    (driver \in ClientDrivers /\ last'.op = "handleGuess" /\ ~ClientTerminal)
    => LET correct == SameIgnoringCase(last'.name, CorrectPokemon) IN
       /\ attemptsUsed' = attemptsUsed + 1
       /\ won' = correct
       /\ gameOver' = (~correct /\ attemptsUsed' = MAX_ATTEMPTS)

C3_ServerRule ==
    (/\ last'.op = "submitGuess"
     /\ last'.res.attemptsUsed >= 1
     /\ \A g \in GameIds : ~DbTerminal(g)
                           /\ Len(GuessesOf(DB, g)) < MAX_ATTEMPTS)
    => LET correct == SameIgnoringCase(last'.name, last'.correctName)
           n == last'.res.attemptsUsed
           lost == ~correct /\ n = MAX_ATTEMPTS
       IN /\ last'.res.isCorrect = correct
          /\ last'.res.won = correct
          /\ last'.res.gameOver = lost
          /\ \A g \in 1..Len(games') :
               IF games'[g].is_finished
               THEN /\ correct \/ lost
                    /\ games'[g].won = (IF correct THEN "true" ELSE "false")
               ELSE games'[g].won = "null"

C4_TerminalStable ==
    [][ SignedInDaily => (won => won') /\ (gameOver => gameOver') ]_vars

(***************************************************************************)
(* C5  For every stored game, isFinished holds iff won is true or the game *)
(* has at least MAX_ATTEMPTS guesses.  Stated for runs in which no write   *)
(* is lost.                                                                *)
(***************************************************************************)
C5_FinishedIff ==
    ~writeLost =>
    /\ \A g \in GameIds :
         games[g].is_finished
         <=> (games[g].won = "true" \/ Len(GuessesOf(DB, g)) >= MAX_ATTEMPTS)
    /\ \A i \in 1..Len(stored) :
         stored[i].isFinished
         <=> (stored[i].won \/ stored[i].guesses >= MAX_ATTEMPTS)

(***************************************************************************)
(* C6  Attempt monotonicity: with no write lost, each guess submitted to a *)
(* game whose stored guesses match the attempts used so far increases      *)
(* attemptsUsed by one, stores exactly one guess, and that guess carries   *)
(* the attempt number equal to the new count.                              *)
(***************************************************************************)
C6_AttemptMonotonic ==
    [][ (/\ SignedInDaily
         /\ last'.op = "handleGuess"
         /\ ~ClientTerminal
         /\ ~writeLost'
         /\ Len(guesses) = attemptsUsed)
        => /\ attemptsUsed' = attemptsUsed + 1
           /\ Len(guesses') = Len(guesses) + 1
           /\ guesses'[Len(guesses')].attempt_number = attemptsUsed' ]_vars

(***************************************************************************)
(* C7  At most one game row per (user, puzzle), also when two calls of     *)
(* getOrCreateGame interleave, and every guess is attached to that row.    *)
(***************************************************************************)
C7_OneGamePerUser ==
    /\ Len(games) <= 1
    /\ \A i \in 1..Len(guesses) : guesses[i].game_id = 1

C9_HintMonotonic ==
    [][ /\ (~ClientTerminal /\ ~ClientTerminal'
            /\ attemptsUsed' >= attemptsUsed)
           => hintLevel' >= hintLevel
        /\ won' => hintLevel' = MAX_ATTEMPTS ]_vars

(***************************************************************************)
(* C10 Image reveal: the image is shown iff attemptsUsed >=                *)
(* MAX_ATTEMPTS - 1 or the game is Won; it is hidden in every InProgress   *)
(* state with fewer than five attempts used.                               *)
(***************************************************************************)
C10_ImageReveal ==
    /\ showImage <=> (attemptsUsed >= MAX_ATTEMPTS - 1 \/ won)
    /\ (~ClientTerminal /\ attemptsUsed < MAX_ATTEMPTS - 1) => ~showImage

\* the final attempt of an unfinished game on part_016: image shown
C10_Witness ==
    /\ driver = "part_016"
    /\ last.op = "handleGuess"
    /\ attemptsUsed = MAX_ATTEMPTS - 1
    /\ ~won
    /\ showImage

(***************************************************************************)
(* C11  Hint policy: the policy returns exactly four entries in the order  *)
(* primary type, secondary type, evolution stage, generation; tier k shows *)
(* its value exactly when the level is at least k and its placeholder      *)
(* otherwise, whatever the other tiers show; a single-typed species shows  *)
(* "None" as secondary type once the level is at least 2.                  *)
(***************************************************************************)
HintLabels == <<"Type", "Secondary Type", "Evolution Stage", "Generation">>

StatsOf(fn, rows) ==
    IF fn = "getUserStats" THEN getUserStats(rows)
    ELSE calculateUnsignedStats(rows)

StatsComputed == output.fn \in {"getUserStats", "calculateUnsignedStats"}

FinishedOnly(rows) == SelectSeq(rows, LAMBDA r : r.isFinished)

WellFormedDate(d) == d[1] # 0 /\ d[2] # 0 /\ d[3] # 0

WellFormedOnly(rows) == SelectSeq(rows, LAMBDA r : WellFormedDate(r.date))

DatesOf(rows) == { rows[i].date : i \in 1..Len(rows) }

WinOn(rows, d) == \E i \in 1..Len(rows) : rows[i].date = d /\ rows[i].won

\* the calendar, stated without day numbers
MonthLength(y, m) ==
    IF m = 2
    THEN (IF (y % 4 = 0 /\ y % 100 # 0) \/ y % 400 = 0 THEN 29 ELSE 28)
    ELSE IF m \in {4, 6, 9, 11} THEN 30 ELSE 31

PrevCalendarDay(d) ==
    IF d[3] > 1 THEN <<d[1], d[2], d[3] - 1>>
    ELSE IF d[2] > 1 THEN <<d[1], d[2] - 1, MonthLength(d[1], d[2] - 1)>>
         ELSE <<d[1] - 1, 12, 31>>

\* number of consecutive calendar days, ending at d, that are all wins
RECURSIVE RunEndingAt(_, _)
RunEndingAt(rows, d) ==
    IF WinOn(rows, d) THEN 1 + RunEndingAt(rows, PrevCalendarDay(d)) ELSE 0

LongestRun(rows) ==
    IF rows = <<>> THEN 0
    ELSE LET runs == { RunEndingAt(rows, d) : d \in DatesOf(rows) }
         IN CHOOSE n \in runs : \A k \in runs : k <= n

LastDate(rows) ==
    CHOOSE d \in DatesOf(rows) :
        \A e \in DatesOf(rows) :
            e = d \/ e[1] < d[1] \/ (e[1] = d[1] /\ e[2] < d[2])
              \/ (e[1] = d[1] /\ e[2] = d[2] /\ e[3] < d[3])

DistinctWellFormed(rows) ==
    /\ \A i, j \in 1..Len(rows) : rows[i].date = rows[j].date => i = j
    /\ \A i \in 1..Len(rows) : WellFormedDate(rows[i].date)

(***************************************************************************)
(* C12  Only finished games feed the statistics: the four statistics are   *)
(* those of the finished games alone, for getUserStats and for             *)
(* calculateUnsignedStats (a game that is not finished adds to none of     *)
(* totalGames, totalWins, currentStreak, bestStreak).                      *)
(***************************************************************************)
C12_OnlyFinishedGames ==
    StatsComputed => output.stats = StatsOf(output.fn, FinishedOnly(input))

(***************************************************************************)
(* C13  Malformed dates are skipped: the statistics of a collection equal  *)
(* the statistics of the same collection without the entries whose date    *)
(* fails to parse, wherever those fall in the sorted order.                *)
(***************************************************************************)
C13_MalformedSkipped ==
    StatsComputed => output.stats = StatsOf(output.fn, WellFormedOnly(input))

(***************************************************************************)
(* C14  Streak computation: on entries with distinct well-formed dates,    *)
(* bestStreak is the length of the longest run of wins on consecutive      *)
(* calendar days, and currentStreak is the length of the run of            *)
(* consecutive-day wins ending at the chronologically last entry (0 when   *)
(* that entry is a loss); a missing day restarts the run at 1.             *)
(***************************************************************************)
C14_StreakComputation ==
    StatsComputed /\ DistinctWellFormed(input) =>
      /\ output.stats.bestStreak = LongestRun(input)
      /\ output.stats.currentStreak =
           (IF input = <<>> THEN 0 ELSE RunEndingAt(input, LastDate(input)))

\* wins on 01-31, 02-01 and 02-03: best streak 2 across the month end, and the
\* missing 02-02 restarts the current streak at 1
C14_Witness ==
    /\ StatsComputed
    /\ DistinctWellFormed(input)
    /\ DatesOf(input) = { <<2024, 1, 31>>, <<2024, 2, 1>>, <<2024, 2, 3>> }
    /\ \A i \in 1..Len(input) : input[i].won
    /\ output.stats.bestStreak = 2
    /\ output.stats.currentStreak = 1

(***************************************************************************)
(* C15  Deduplication by day: several games of one date count as one       *)
(* entry, a win if any of them is a win; totalGames is the number of       *)
(* distinct dates and totalWins the number of distinct dates with a win    *)
(* (getUserStats).                                                         *)
(***************************************************************************)
C15_DedupByDay ==
    output.fn = "getUserStats" =>
      /\ output.stats.totalGames = Cardinality(DatesOf(input))
      /\ output.stats.totalWins =
           Cardinality({ d \in DatesOf(input) : WinOn(input, d) })

StageResolvers ==
    {"lib/actions getEvolutionStage", "app/page getEvolutionStage",
     "getPokemonEvolutionStage"}

RECURSIVE DepthFromRoot(_, _)
DepthFromRoot(chain, node) ==
    IF chain[node] = 0 THEN 0 ELSE 1 + DepthFromRoot(chain, chain[node])

NodeOf(chain, name) ==
    IF \E i \in 1..Len(chain) : SpeciesNames[i] = name
    THEN CHOOSE i \in 1..Len(chain) : SpeciesNames[i] = name
    ELSE 0

ExpectedStage(chain, name) ==
    IF NodeOf(chain, name) = 0 THEN 1
    ELSE 1 + DepthFromRoot(chain, NodeOf(chain, name))

C17_EvolutionStage ==
    output.fn \in StageResolvers =>
      output.stage = << ExpectedStage(input.chain, input.pokemonName) >>

(***************************************************************************)
(* C18  A write failure never blocks play: when the insert of a guess or   *)
(* the update that finishes the game fails, the failure is swallowed, the  *)
(* client state advanced by the guess stays advanced, and the player can   *)
(* submit the next attempt until the game is won or six attempts are used. *)
(***************************************************************************)
CanStillGuess ==
    ENABLED (HandleGuess /\ attemptsUsed' = attemptsUsed + 1)

C18_WriteFailureNeverBlocks ==
    /\ [][ /\ last'.op = "handleGuess"
           /\ writeLost'
           /\ ~won
           /\ attemptsUsed < MAX_ATTEMPTS
           => /\ attemptsUsed' = attemptsUsed + 1
              /\ previousGuesses' = Append(previousGuesses, last'.name)
              /\ won' = SameIgnoringCase(last'.name, CorrectPokemon) ]_vars
    /\ [](/\ driver = "GameClient"
          /\ writeLost
          /\ ~won
          /\ attemptsUsed < MAX_ATTEMPTS
          => CanStillGuess)

\* a signed-in daily player used all six attempts although no row was stored
C18_Witness ==
    /\ driver = "GameClient"
    /\ user
    /\ ~isUnlimited
    /\ writeLost
    /\ last.op = "handleGuess"
    /\ attemptsUsed = MAX_ATTEMPTS
    /\ Len(previousGuesses) = MAX_ATTEMPTS
    /\ guesses = <<>>

(***************************************************************************)
(* C19  Unauthenticated play degrades silently: with no user signed in, a  *)
(* guess submission writes nothing to the games and guesses tables; the    *)
(* server submitGuess of the daily puzzle returns isCorrect with           *)
(* gameOver = false and attemptsUsed = -1; and the local submitGuess       *)
(* counts the guess in today's local record.                               *)
(***************************************************************************)
GuessOps == {"submitGuess", "createGuess", "handleGuess", "localSubmitGuess"}

\* guesses counted for today in a local store (0 when it has no record)
LocalGuessCount(list) ==
    IF \E i \in 1..Len(list) : list[i].date = TodayIso
    THEN list[CHOOSE i \in 1..Len(list) : list[i].date = TodayIso].guesses
    ELSE 0

\* submitGuess returns attemptsUsed = 0 exactly for isUnlimited = true
C19_UnauthenticatedPlay ==
    [][ ~user /\ last'.op \in GuessOps =>
          /\ games' = games
          /\ guesses' = guesses
          /\ last'.op = "submitGuess" /\ last'.res.attemptsUsed # 0 =>
               /\ last'.res.isCorrect
                    = SameIgnoringCase(last'.name, last'.correctName)
               /\ last'.res.gameOver = FALSE
               /\ last'.res.attemptsUsed = -1
          /\ last'.op = "localSubmitGuess" =>
               LocalGuessCount(stored') = LocalGuessCount(stored) + 1 ]_vars

(***************************************************************************)
(* C20  Local fallback store: after any sequence of initializeGame,        *)
(* submitGuess, submitEndGame and saveGameRecord calls the stored list     *)
(* holds at most one record per calendar date; a write for a date replaces *)
(* the whole prior record of that date (the record written is the one      *)
(* stored, nothing of the prior record is merged in) and leaves the        *)
(* records of the other dates unchanged.                                   *)
(***************************************************************************)
LocalOps ==
    {"initializeGame", "localSubmitGuess", "localSubmitEndGame",
     "saveGameRecord"}

RecordsOn(list, d) == { list[i] : i \in { j \in 1..Len(list) : list[j].date = d } }

OneRecordPerDate(list) ==
    \A i, j \in 1..Len(list) : list[i].date = list[j].date => i = j

\* the date a call writes: the record's own for saveGameRecord, else today
WrittenDate(act) ==
    IF act.op = "saveGameRecord" THEN act.name.date ELSE TodayIso

C20_LocalStore ==
    /\ [] OneRecordPerDate(stored)
    /\ [][ last'.op \in LocalOps =>
             /\ \A d \in LocalDates \ {WrittenDate(last')} :
                  RecordsOn(stored', d) = RecordsOn(stored, d)
             /\ last'.op = "saveGameRecord" =>
                  RecordsOn(stored', last'.name.date) = {last'.name} ]_vars

\* three dates stored, and the last call rewrote the first of them
C20_Witness ==
    /\ Len(stored) = 3
    /\ last.op = "saveGameRecord"
    /\ stored[1] = last.name
    /\ stored[1].isFinished
    /\ stored[2].date = TodayIso
    /\ stored[2].guesses = 2

(***************************************************************************)
(* C21  searchPokemon with an empty or whitespace-only query returns an    *)
(* empty list, leaves the species-list cache unchanged and issues no fetch *)
(* of the species list (both modules).                                     *)
(***************************************************************************)
IsBlank(query) == \A i \in 1..Len(query) : query[i] = " "

C21_BlankQuery ==
    [][ \A s \in Sessions :
          search'[s] # search[s] /\ IsBlank(search'[s].query) =>
            /\ cachedPokemonList' = cachedPokemonList
            /\ fetches' = fetches
            /\ search'[s].pc = "done"
            /\ search'[s].result = <<>> ]_vars

(***************************************************************************)
(* C23  The species list is fetched once per process: over every sequence  *)
(* and interleaving of lib searchPokemon calls with non-empty queries the  *)
(* fetch is issued at most once, and a call that starts once the list is   *)
(* cached is answered from the cache.                                      *)
(***************************************************************************)
C23_FetchedOnce ==
    /\ [](fetches.lib <= 1)
    /\ [][ \A s \in Sessions :
             /\ search'[s] # search[s]
             /\ search[s].pc # "awaiting"
             /\ search'[s].module = "lib"
             /\ ~IsBlank(search'[s].query)
             /\ cachedPokemonList.loaded
             => /\ fetches' = fetches
                /\ search'[s].pc = "done"
                /\ search'[s].fromCache ]_vars

(***************************************************************************)
(* C22  Roman-numeral round trip: for every generation ordinal n (1..9,    *)
(* and on to MaxOrdinal), decoding the standard Roman numeral of n, given  *)
(* in lower case as the identifier "generation-<roman>", through           *)
(* generationToNumber / romanToInt yields n.                               *)
(***************************************************************************)
C22_RomanRoundTrip ==
    output.fn = "generationToNumber" =>
      \A n \in 1..MaxOrdinal :
         input.generation = RomanNumeral(n) => output.n = n

\* "generation-ix" decoded to 9: the subtractive case
C22_Witness ==
    /\ output.fn = "generationToNumber"
    /\ input.generation = <<"i", "x">>
    /\ output.n = 9

(***************************************************************************)
(* C24  Unlimited mode persists nothing: with isUnlimited = true no guess  *)
(* submission and no win or loss inserts a guess row, creates a game row   *)
(* or updates won / is_finished of a game, also for a signed-in user who   *)
(* has a daily game for today.                                             *)
(***************************************************************************)
\* submitGuess returns attemptsUsed = 0 exactly for isUnlimited = true
UnlimitedCall ==
    \/ isUnlimited /\ last'.op \in {"handleGuess", "handleAutoWin",
                                    "handleAutoLose"}
    \/ last'.op = "submitGuess" /\ last'.res.attemptsUsed = 0

C24_UnlimitedPersistsNothing ==
    [][ UnlimitedCall => games' = games /\ guesses' = guesses ]_vars

(***************************************************************************)
(* C25  toUtcDayNumber returns null when the year, month or day segment is *)
(* missing, non-numeric or 0, and otherwise the number of days since the   *)
(* epoch at UTC midnight; two dates are consecutive exactly when their day *)
(* numbers differ by 1, across month and year ends too, and two different  *)
(* calendar dates never get the same day number.                           *)
(***************************************************************************)
SegmentsOk(d) == \A k \in 1..3 : d[k] # 0 /\ d[k] # NaN

HasMatchingGuess(g) ==
    \E i \in 1..Len(guesses) :
        /\ guesses[i].game_id = g
        /\ SameIgnoringCase(guesses[i].guess_name, CorrectPokemon)

C26_WonHasMatchingGuess ==
    driver = "actions" /\ ~writeLost =>
      \A g \in GameIds : games[g].won = "true" => HasMatchingGuess(g)

(***************************************************************************)
(* C27  Client and store agree on the attempt count: for a signed-in user  *)
(* in daily mode with no write lost, after every completed handleGuess the *)
(* number of guess rows stored for today's game equals the client's        *)
(* attemptsUsed, and the stored guesses in attempt order are the client's  *)
(* guess list, so re-initialising the client from the store restores both. *)
(***************************************************************************)
StoredGuessNames ==
    LET game == getUserGame(DB)
        rows == IF game = NoGame THEN <<>> ELSE GuessesOf(DB, game)
        sorted == SortByAttempt(rows)
    IN [i \in 1..Len(sorted) |-> sorted[i].guess_name]

C27_ClientStoreAgree ==
    SignedInDaily /\ ~writeLost /\ last.op = "handleGuess" =>
      /\ Len(StoredGuessNames) = attemptsUsed
      /\ StoredGuessNames = previousGuesses

(***************************************************************************)
(* C28  Won and Lost are mutually exclusive: in no reachable client state  *)
(* are won and gameOver both true, no result returned by the server        *)
(* submitGuess has won = true together with gameOver = true, and gameOver  *)
(* = true implies attemptsUsed >= MAX_ATTEMPTS, on the client and in the   *)
(* server result.                                                          *)
(***************************************************************************)
C28_WonLostExclusive ==
    /\ driver \in ClientDrivers =>
         /\ ~(won /\ gameOver)
         /\ gameOver => attemptsUsed >= MAX_ATTEMPTS
    /\ last.op = "submitGuess" =>
         /\ ~(last.res.won /\ last.res.gameOver)
         /\ last.res.gameOver => last.res.attemptsUsed >= MAX_ATTEMPTS

\* the server answered a correct guess stored as the sixth or a later row
C28_Witness ==
    /\ last.op = "submitGuess"
    /\ last.res.won
    /\ last.res.attemptsUsed >= MAX_ATTEMPTS
    /\ ~last.res.gameOver

(***************************************************************************)
(* C29  Statistics are ordered: for every input collection the computed    *)
(* statistics satisfy 0 <= currentStreak <= bestStreak <= totalWins <=     *)
(* totalGames.                                                             *)
(***************************************************************************)
C29_StatsOrdered ==
    StatsComputed =>
      /\ 0 <= output.stats.currentStreak
      /\ output.stats.currentStreak <= output.stats.bestStreak
      /\ output.stats.bestStreak <= output.stats.totalWins
      /\ output.stats.totalWins <= output.stats.totalGames

\* three wins, the last one after a gap: every inequality but the last strict
C29_Witness ==
    /\ StatsComputed
    /\ output.stats.currentStreak = 1
    /\ output.stats.bestStreak = 2
    /\ output.stats.totalWins = 3

(***************************************************************************)
(* C30  The two statistics implementations agree: for every collection of  *)
(* game records with at most one record per date, calculateUnsignedStats   *)
(* and getUserStats return the same totalGames, totalWins, currentStreak   *)
(* and bestStreak when given the same (date, won) pairs.                   *)
(***************************************************************************)
C30_ImplementationsAgree ==
    StatsComputed /\ OneRecordPerDate(input) =>
      /\ output.stats = getUserStats(input)
      /\ output.stats = calculateUnsignedStats(input)

\* records stored out of date order that carry a streak of two
C30_Witness ==
    /\ output.fn = "calculateUnsignedStats"
    /\ Len(input) = 3
    /\ DateBefore(input[3].date, input[1].date)
    /\ output.stats.bestStreak = 2
    /\ output.stats = getUserStats(input)

====
